---- MODULE Spec2Model ----
(***************************************************************************)
(* Model of the XBee 3 Cellular driver (src/src/xbee_cellular.c) on top of *)
(* the API-frame layer (xbee_api_frames: apiSendAtCommand,                 *)
(* apiSendAtCommandAndGetResponse, apiReceiveApiFrame, apiHandleFrame),    *)
(* whose source is not part of src/ and is modelled from spec.md 4.1-4.3.  *)
(*                                                                         *)
(* One application thread calls the driver.  connect() is modelled step by *)
(* step: one step per call it makes into the frame layer or the transport  *)
(* (AT PN, AT AN, AT CP, each AT AI exchange, each PortDelay).  The other  *)
(* operations make a single such call and are one step each.               *)
(*                                                                         *)
(* Spec starts from a handle XBeeCellularCreate has returned; SpecCreate   *)
(* starts before the handle exists and adds XBeeCellularCreate; SpecWait   *)
(* runs one blocking exchange over every bounded sequence of arrivals.     *)
(***************************************************************************)
EXTENDS Integers, Sequences, FiniteSets, TLC

VARIABLES
    config,       \* XBeeCellular.config: [simPin, apn, carrier], C string pointers
    frameIdCntr,  \* XBee.frameIdCntr (uint8_t)
    pc,           \* position of the application thread inside the driver
    i,            \* loop counter of XBeeCellularConnect
    op,           \* the driver operation running, or the last one that returned
    ret,          \* return value of op once it has returned (FALSE while it runs)
    calls,        \* number of driver operations the application has called
    devPending,   \* AT commands written to the device whose response the host
                  \* has not read and on which no wait has timed out
    attachedOnce, \* a connect() of this behaviour has returned true
    failedConnects, \* number of connect() calls that have returned false
    trace,        \* calls made into the frame layer / transport by the
                  \* operation running (or the last one that returned)
    last,         \* outcome of the last frame-layer call
    arg,          \* argument the application passed to op
    vtable        \* XBee.vtable of the handle

vars ==
    <<config, frameIdCntr, pc, i, op, ret, calls, devPending, attachedOnce,
      failedConnects, trace, last, arg, vtable>>

(***************************************************************************)
(* Program constants                                                       *)
(***************************************************************************)
AttachRetries == 20
AttachDelayMs == 1000
AiTimeoutMs == 5000
FrameIdModulus == 256
Uint8Modulus == 256
FrameBufSize == 128

(***************************************************************************)
(* Bounds of the model                                                     *)
(***************************************************************************)
MaxCalls == 2      \* driver operations called in one behaviour
MaxArrive == 1     \* frames / decode errors arriving during one blocking wait
MaxPending == 2    \* unanswered fire-and-forget commands the device holds
MaxWaitFrames == 3 \* frames / decode errors of one wait checked on its own
MaxPayloadLen == 3 \* payload bytes of a frame encoded and decoded on its own

(***************************************************************************)
(* C strings: a pointer is NULL or points to a NUL-terminated string,      *)
(* modelled as the sequence of its characters.                             *)
(***************************************************************************)
NullPtr == [isNull |-> TRUE, s |-> <<>>]
StrPtr(s) == [isNull |-> FALSE, s |-> s]
strlen(p) == Len(p.s)

SimPins == {NullPtr, StrPtr(<<>>), StrPtr(<<1, 2, 3, 4>>)}
Apns == {NullPtr, StrPtr(<<>>), StrPtr(<<5, 6>>)}
Carriers == {NullPtr, StrPtr(<<>>), StrPtr(<<7>>)}
Configs == [simPin : SimPins, apn : Apns, carrier : Carriers]

\* configurations the application passes to configure()
ConfigInputs ==
    { [simPin |-> StrPtr(<<1, 2, 3, 4>>), apn |-> StrPtr(<<5, 6>>), carrier |-> StrPtr(<<7>>)],
      [simPin |-> StrPtr(<<>>), apn |-> StrPtr(<<5, 6>>), carrier |-> StrPtr(<<>>)],
      [simPin |-> NullPtr, apn |-> NullPtr, carrier |-> NullPtr] }

\* frame identifiers a handle may hold when the first operation is called
InitFrameIds == {250}

(***************************************************************************)
(* Frames and decode outcomes (spec.md 3, 4.1)                             *)
(***************************************************************************)
AtResponse(id, payload) == [type |-> "AT_RESPONSE", id |-> id, data |-> payload]
ModemStatus == [type |-> "MODEM_STATUS", id |-> 0, data |-> <<6>>]
RxPacket == [type |-> "RX_PACKET", id |-> 0, data |-> <<104, 105>>]
TransmitStatus == [type |-> "TRANSMIT_STATUS", id |-> 0, data |-> <<0>>]
NoFrame == [type |-> "NONE", id |-> 0, data |-> <<>>]

AI_ATTACHED == 0

Decoded(frame) == [status |-> "SUCCESS", frame |-> frame]
DecodeError(e) == [status |-> e, frame |-> NoFrame]

(***************************************************************************)
(* Frame codec (spec.md 4.1, 6): bytes on the wire                         *)
(***************************************************************************)
StartDelimiter == 126

RECURSIVE Sum(_)
Sum(bytes) ==
    IF bytes = <<>> THEN 0
    ELSE IF Len(bytes) = 1 THEN bytes[1]
    ELSE LET h == Len(bytes) \div 2
         IN  Sum(SubSeq(bytes, 1, h)) + Sum(SubSeq(bytes, h + 1, Len(bytes)))

\* mutant: the checksum is the two's complement of the sum
Encode_TwosComplement(type, payload) ==
    LET body == <<type>> \o payload
    IN  <<StartDelimiter, (Len(body) \div Uint8Modulus) % Uint8Modulus,
          Len(body) % Uint8Modulus>>
        \o body \o <<(Uint8Modulus - (Sum(body) % Uint8Modulus)) % Uint8Modulus>>

\* mutant: the length field covers the payload only
Encode_LengthOfPayload(type, payload) ==
    LET body == <<type>> \o payload
    IN  <<StartDelimiter, (Len(payload) \div Uint8Modulus) % Uint8Modulus,
          Len(payload) % Uint8Modulus>>
        \o body \o <<255 - (Sum(body) % Uint8Modulus)>>

\* encode: delimiter, big-endian length of type + payload, type, payload,
\* checksum 0xFF - (sum of type and payload bytes mod 256)
Encode(type, payload) ==
    LET body == <<type>> \o payload
    IN  <<StartDelimiter, (Len(body) \div Uint8Modulus) % Uint8Modulus,
          Len(body) % Uint8Modulus>>
        \o body \o <<255 - (Sum(body) % Uint8Modulus)>>

CodecFrame(type, data) == [type |-> type, data |-> data, length |-> Len(data)]
CodecError(e) == [status |-> e, frame |-> CodecFrame(0, <<>>)]

\* decode of the bytes the transport delivers before its read times out:
\* delimiter, two length bytes, that many bytes of type + data, checksum
DecodeBytes(bytes) ==
    IF bytes = <<>> THEN CodecError("TIMEOUT_START_DELIMITER")
    ELSE IF bytes[1] # StartDelimiter THEN CodecError("INVALID_START_DELIMITER")
    ELSE IF Len(bytes) < 3 THEN CodecError("TIMEOUT_LENGTH")
    ELSE LET len == bytes[2] * Uint8Modulus + bytes[3] IN
         IF len = 0 \/ Len(bytes) < 3 + len + 1 THEN CodecError("TIMEOUT_BODY")
         ELSE LET body == SubSeq(bytes, 4, 3 + len)
                  checksum == bytes[3 + len + 1]
              IN  IF (Sum(body) + checksum) % Uint8Modulus # 255
                  THEN CodecError("CHECKSUM")
                  ELSE [status |-> "SUCCESS",
                        frame |-> CodecFrame(body[1], Tail(body))]

(***************************************************************************)
(* Frame layer (spec.md 4.2, 4.3)                                          *)
(***************************************************************************)
AtCommands == {"AT_PN", "AT_AN", "AT_CP", "AT_AI", "AT_SD"}

\* the device keeps at most MaxPending unanswered commands, oldest dropped
Push(pend, e) ==
    IF Len(pend) < MaxPending THEN Append(pend, e) ELSE Append(Tail(pend), e)

\* mutant: the counter is advanced before the command is validated
apiSendAtCommand_CountsFirst(cmd, wr, cntr, pend) ==
    IF cmd \notin AtCommands
    THEN [status |-> "INVALID_COMMAND", id |-> cntr,
          cntr |-> (cntr + 1) % FrameIdModulus, pend |-> pend, written |-> <<>>]
    ELSE [status |-> IF wr THEN "SUCCESS" ELSE "UART_FAILURE",
          id |-> cntr,
          cntr |-> (cntr + 1) % FrameIdModulus,
          pend |-> IF wr THEN Push(pend, [id |-> cntr, cmd |-> cmd]) ELSE pend,
          written |-> <<[type |-> "AT_COMMAND", id |-> cntr, cmd |-> cmd]>>]

\* apiSendAtCommand: validate, frame with the current counter, write,
\* increment the counter.  wr: the transport accepted all bytes.
\* written: the frames handed to the transport write.
apiSendAtCommand(cmd, wr, cntr, pend) ==
    IF cmd \notin AtCommands
    THEN [status |-> "INVALID_COMMAND", id |-> cntr, cntr |-> cntr, pend |-> pend,
          written |-> <<>>]
    ELSE [status |-> IF wr THEN "SUCCESS" ELSE "UART_FAILURE",
          id |-> cntr,
          cntr |-> (cntr + 1) % FrameIdModulus,
          pend |-> IF wr THEN Push(pend, [id |-> cntr, cmd |-> cmd]) ELSE pend,
          written |-> <<[type |-> "AT_COMMAND", id |-> cntr, cmd |-> cmd]>>]

\* What arrives on the serial line while the host reads: the kinds are
\* resolved against the commands the device has still to answer.
WaitKinds == {"attached", "registering", "novalue", "pend", "modem", "checksum"}
ProcessKinds ==
    {"pend", "modem", "rx", "txstatus", "checksum", "delimiter", "timeout"}

OutcomeOf(k, wid) ==
    CASE k = "attached" -> Decoded(AtResponse(wid, <<AI_ATTACHED>>))
      [] k = "registering" -> Decoded(AtResponse(wid, <<34>>))
      [] k = "novalue" -> Decoded(AtResponse(wid, <<>>))
      [] k = "modem" -> Decoded(ModemStatus)
      [] k = "rx" -> Decoded(RxPacket)
      [] k = "txstatus" -> Decoded(TransmitStatus)
      [] k = "otherid" ->
            Decoded(AtResponse((wid + 1) % FrameIdModulus, <<AI_ATTACHED>>))
      [] k = "checksum" -> DecodeError("CHECKSUM")
      [] k = "delimiter" -> DecodeError("INVALID_START_DELIMITER")
      [] OTHER -> DecodeError("TIMEOUT_START_DELIMITER")

RECURSIVE Resolve(_, _, _)
Resolve(kinds, wid, pend) ==
    IF kinds = <<>> THEN <<>>
    ELSE IF Head(kinds) = "pend"
         THEN <<Decoded(AtResponse(Head(pend).id, <<>>))>>
                  \o Resolve(Tail(kinds), wid, Tail(pend))
         ELSE <<OutcomeOf(Head(kinds), wid)>> \o Resolve(Tail(kinds), wid, pend)

CountPend(kinds) == Cardinality({j \in 1..Len(kinds) : kinds[j] = "pend"})

RECURSIVE Drop(_, _)
Drop(s, n) == IF n = 0 \/ s = <<>> THEN s ELSE Drop(Tail(s), n - 1)

SeqsUpTo(S, n) == UNION {[1..m -> S] : m \in 0..n}

\* arrivals during one blocking wait: the awaited response, if it comes,
\* is the last thing read; nothing is read when the write failed
WaitArrivals(wr, pend) ==
    {k \in SeqsUpTo(WaitKinds, IF wr THEN MaxArrive ELSE 0) :
        /\ CountPend(k) <= Len(pend)
        /\ \A j \in 1..Len(k) :
              k[j] \in {"attached", "registering", "novalue"} => j = Len(k)}

\* mutant: any AT response ends the wait, whatever its frame id
RECURSIVE WaitLoop_AnyAtResponse(_, _, _)
WaitLoop_AnyAtResponse(arr, wid, dispatched) ==
    IF arr = <<>>
    THEN [status |-> "TIMEOUT", payload |-> <<>>, dispatched |-> dispatched]
    ELSE LET o == Head(arr) IN
         IF o.status = "SUCCESS" /\ o.frame.type = "AT_RESPONSE"
         THEN [status |-> "SUCCESS", payload |-> o.frame.data,
               dispatched |-> dispatched]
         ELSE WaitLoop_AnyAtResponse(Tail(arr), wid,
                       IF o.status = "SUCCESS"
                       THEN Append(dispatched, o.frame) ELSE dispatched)

\* mutant: a frame read while another is awaited is dropped when one
\* has been dispatched already
RECURSIVE WaitLoop_DropsSecond(_, _, _)
WaitLoop_DropsSecond(arr, wid, dispatched) ==
    IF arr = <<>>
    THEN [status |-> "TIMEOUT", payload |-> <<>>, dispatched |-> dispatched]
    ELSE LET o == Head(arr) IN
         IF o.status = "SUCCESS" /\ o.frame.type = "AT_RESPONSE" /\ o.frame.id = wid
         THEN [status |-> "SUCCESS", payload |-> o.frame.data,
               dispatched |-> dispatched]
         ELSE WaitLoop_DropsSecond(Tail(arr), wid,
                       IF o.status = "SUCCESS" /\ dispatched = <<>>
                       THEN Append(dispatched, o.frame) ELSE dispatched)

\* the wait loop of apiSendAtCommandAndGetResponse over the decode
\* outcomes arr that occur before the deadline
RECURSIVE WaitLoop(_, _, _)
WaitLoop(arr, wid, dispatched) ==
    IF arr = <<>>
    THEN [status |-> "TIMEOUT", payload |-> <<>>, dispatched |-> dispatched]
    ELSE LET o == Head(arr) IN
         IF o.status = "SUCCESS" /\ o.frame.type = "AT_RESPONSE" /\ o.frame.id = wid
         THEN [status |-> "SUCCESS", payload |-> o.frame.data,
               dispatched |-> dispatched]
         ELSE WaitLoop(Tail(arr), wid,
                       IF o.status = "SUCCESS"
                       THEN Append(dispatched, o.frame) ELSE dispatched)

\* apiSendAtCommandAndGetResponse(cmd, NULL, 0, .., timeoutMs)
apiSendAtCommandAndGetResponse(cmd, wr, kinds, cntr, pend) ==
    LET sent == apiSendAtCommand(cmd, FALSE, cntr, pend)
        w == WaitLoop(Resolve(kinds, cntr, pend), cntr, <<>>)
    IN  IF cmd \notin AtCommands \/ ~wr
        THEN [status |-> IF cmd \notin AtCommands
                         THEN "INVALID_COMMAND" ELSE "UART_FAILURE",
              payload |-> <<>>, dispatched |-> <<>>,
              cntr |-> sent.cntr, pend |-> pend]
        ELSE [status |-> w.status, payload |-> w.payload,
              dispatched |-> w.dispatched,
              cntr |-> sent.cntr, pend |-> Drop(pend, CountPend(kinds))]

\* apiHandleFrame: the handler a frame is routed to.  A variant's hook
\* takes a receive-packet or transmit-status frame when it is set; when
\* it is unset the generic handler does.
HandleFrame(vt, frame) ==
    CASE frame.type = "AT_RESPONSE" -> [route |-> "at_response", error |-> FALSE]
      [] frame.type = "MODEM_STATUS" -> [route |-> "modem_status", error |-> FALSE]
      [] frame.type = "RX_PACKET" ->
            [route |-> IF vt.handleRxPacketFrame # "NULL"
                       THEN vt.handleRxPacketFrame ELSE "generic_rx",
             error |-> FALSE]
      [] frame.type = "TRANSMIT_STATUS" ->
            [route |-> IF vt.handleTransmitStatusFrame # "NULL"
                       THEN vt.handleTransmitStatusFrame ELSE "generic_tx_status",
             error |-> FALSE]
      [] OTHER -> [route |-> "none", error |-> FALSE]

\* apiSendFrame: pass-through to encode + transport write; the counter
\* of the handle is not touched
apiSendFrame(type, data, len, wr, cntr) ==
    [status |-> IF wr THEN "SUCCESS" ELSE "UART_FAILURE", cntr |-> cntr]

(***************************************************************************)
(* Driver: src/src/xbee_cellular.c                                         *)
(***************************************************************************)
API_SEND_SUCCESS == "SUCCESS"

\* events of the trace
AtEvent(cmd, param) ==
    [ev |-> "AT", cmd |-> cmd, param |-> param.s, len |-> strlen(param), ms |-> 0]
ExchangeEvent(cmd, ms) ==
    [ev |-> "EXCHANGE", cmd |-> cmd, param |-> <<>>, len |-> 0, ms |-> ms]
DelayEvent(ms) ==
    [ev |-> "DELAY", cmd |-> "", param |-> <<>>, len |-> 0, ms |-> ms]
DecodeEvent ==
    [ev |-> "DECODE", cmd |-> "", param |-> <<>>, len |-> 0, ms |-> 0]
FrameEvent(type, data, len) ==
    [ev |-> "FRAME", cmd |-> type, param |-> data, len |-> len, ms |-> 0]

NoIo == [status |-> "NONE", response |-> 0, dispatched |-> <<>>]

\* an operation called without argument besides the handle
NoArg == [self |-> "handle"]

\* mutant: the table lacks the configure entry
XBeeCellularVTable_NoConfigure ==
    [init |-> "XBeeCellularInit", process |-> "XBeeCellularProcess",
     connect |-> "XBeeCellularConnect", disconnect |-> "XBeeCellularDisconnect",
     sendData |-> "XBeeCellularSendData", softReset |-> "XBeeCellularSoftReset",
     hardReset |-> "XBeeCellularHardReset", connected |-> "XBeeCellularConnected",
     handleRxPacketFrame |-> "NULL", handleTransmitStatusFrame |-> "NULL",
     configure |-> "NULL"]

\* static const XBeeVTable XBeeCellularVTable
XBeeCellularVTable ==
    [init |-> "XBeeCellularInit", process |-> "XBeeCellularProcess",
     connect |-> "XBeeCellularConnect", disconnect |-> "XBeeCellularDisconnect",
     sendData |-> "XBeeCellularSendData", softReset |-> "XBeeCellularSoftReset",
     hardReset |-> "XBeeCellularHardReset", connected |-> "XBeeCellularConnected",
     handleRxPacketFrame |-> "NULL", handleTransmitStatusFrame |-> "NULL",
     configure |-> "XBeeCellularConfigure"]

\* uint8_t response = 0; the exchange overwrites it with the payload's
\* first byte when it copies a payload
ResponseByte(x) ==
    IF x.status = API_SEND_SUCCESS /\ Len(x.payload) > 0 THEN x.payload[1] ELSE 0

\* mutant: the status of the exchange is not looked at
ConnectedResult_NoStatus(status, response) == response = AI_ATTACHED

\* return (status == API_SEND_SUCCESS && response == 0);
ConnectedResult(status, response) ==
    status = API_SEND_SUCCESS /\ response = AI_ATTACHED

\* mutant: the strlen test is missing
ConfigFieldSet_NoLen(p) == ~p.isNull

\* if (cell->config.X && strlen(cell->config.X) > 0)
ConfigFieldSet(p) == ~p.isNull /\ strlen(p) > 0

\* mutant: off-by-one loop bound
PollAgain_OffByOne(n) == n <= AttachRetries

\* for (int i = 0; i < 20; ++i)
PollAgain(n) == n < AttachRetries

\* mutant: the early return is missing
AfterPoll_NoReturn(attached) == "c_delay"

\* if (XBeeCellularConnected(self)) return true; else PortDelay(1000)
AfterPoll(attached) == IF attached THEN "idle" ELSE "c_delay"

\* mutant: the frame is dispatched whatever the decode status
ProcessDispatch_Always(o) == <<o.frame>>

\* if (status == API_SEND_SUCCESS) apiHandleFrame(self, frame);
ProcessDispatch(o) == IF o.status = API_SEND_SUCCESS THEN <<o.frame>> ELSE <<>>

\* XBeeCellularConnected: one blocking AT AI exchange
XBeeCellularConnected(sofar, wr, kinds) ==
    LET x == apiSendAtCommandAndGetResponse("AT_AI", wr, kinds, frameIdCntr, devPending)
    IN  /\ frameIdCntr' = x.cntr
        /\ devPending' = x.pend
        /\ trace' = Append(sofar, ExchangeEvent("AT_AI", AiTimeoutMs))
        /\ last' = [status |-> x.status, response |-> ResponseByte(x),
                    dispatched |-> x.dispatched]

\* one configuration step of XBeeCellularConnect
ConfigStep(field, cmd, wr) ==
    IF ConfigFieldSet(field)
    THEN LET r == apiSendAtCommand(cmd, wr, frameIdCntr, devPending)
         IN  /\ frameIdCntr' = r.cntr
             /\ devPending' = r.pend
             /\ trace' = Append(trace, AtEvent(cmd, field))
             /\ last' = [NoIo EXCEPT !.status = r.status]
    ELSE /\ last' = NoIo
         /\ UNCHANGED <<frameIdCntr, devPending, trace>>

\* the application calls an operation through the capability table
Call(name, a) ==
    /\ pc = "idle"
    /\ calls < MaxCalls
    /\ vtable[name] # "NULL"
    /\ calls' = calls + 1
    /\ op' = name
    /\ arg' = a

\* the application calls connect() until one call has returned true
ConnectCall ==
    /\ Call("connect", NoArg)
    /\ ~attachedOnce
    /\ pc' = "c_pin"
    /\ trace' = <<>>
    /\ last' = NoIo
    /\ ret' = FALSE
    /\ UNCHANGED <<config, frameIdCntr, i, devPending, attachedOnce,
                 failedConnects, vtable>>

ConnectSimPin ==
    /\ pc = "c_pin"
    /\ \E wr \in BOOLEAN : ConfigStep(config.simPin, "AT_PN", wr)
    /\ pc' = "c_apn"
    /\ UNCHANGED <<config, i, op, ret, calls, attachedOnce, failedConnects,
                 arg, vtable>>

\* mutant: a failed configuration command makes connect() give up
ConnectApn_AbortOnFailure ==
    /\ pc = "c_apn"
    /\ \E wr \in BOOLEAN : ConfigStep(config.apn, "AT_AN", wr)
    /\ pc' = IF last'.status = "UART_FAILURE" THEN "idle" ELSE "c_carrier"
    /\ UNCHANGED <<config, i, op, ret, calls, attachedOnce, failedConnects,
                 arg, vtable>>

\* second configuration step; the status of apiSendAtCommand is dropped
ConnectApn ==
    /\ pc = "c_apn"
    /\ \E wr \in BOOLEAN : ConfigStep(config.apn, "AT_AN", wr)
    /\ pc' = "c_carrier"
    /\ UNCHANGED <<config, i, op, ret, calls, attachedOnce, failedConnects,
                 arg, vtable>>

\* mutant: the loop counter survives from one call to the next (static int i)
ConnectCarrier_StaticCounter ==
    /\ pc = "c_carrier"
    /\ \E wr \in BOOLEAN : ConfigStep(config.carrier, "AT_CP", wr)
    /\ pc' = "c_poll"
    /\ i' = i
    /\ UNCHANGED <<config, op, ret, calls, attachedOnce, failedConnects, arg, vtable>>

\* third configuration step, then int i = 0
ConnectCarrier ==
    /\ pc = "c_carrier"
    /\ \E wr \in BOOLEAN : ConfigStep(config.carrier, "AT_CP", wr)
    /\ pc' = "c_poll"
    /\ i' = 0
    /\ UNCHANGED <<config, op, ret, calls, attachedOnce, failedConnects, arg, vtable>>

ConnectPoll ==
    /\ pc = "c_poll"
    /\ PollAgain(i)
    /\ \E wr \in BOOLEAN : \E kinds \in WaitArrivals(wr, devPending) :
          XBeeCellularConnected(trace, wr, kinds)
    /\ pc' = AfterPoll(ConnectedResult(last'.status, last'.response))
    /\ ret' = (pc' = "idle")
    /\ attachedOnce' = (pc' = "idle")
    /\ UNCHANGED <<config, i, op, calls, failedConnects, arg, vtable>>

\* mutant: the configuration is applied again before every retry
ConnectDelay_Reapply ==
    /\ pc = "c_delay"
    /\ trace' = Append(trace, DelayEvent(AttachDelayMs))
    /\ i' = i + 1
    /\ pc' = IF i = 0 THEN "c_pin" ELSE "c_poll"
    /\ last' = NoIo
    /\ UNCHANGED <<config, frameIdCntr, op, ret, calls, devPending,
                 attachedOnce, failedConnects, arg, vtable>>

\* mutant: the loop counter is not advanced
ConnectDelay_NoIncrement ==
    /\ pc = "c_delay"
    /\ trace' = Append(trace, DelayEvent(AttachDelayMs))
    /\ i' = i
    /\ pc' = "c_poll"
    /\ last' = NoIo
    /\ UNCHANGED <<config, frameIdCntr, op, ret, calls, devPending,
                 attachedOnce, failedConnects, arg, vtable>>

\* self->htable->PortDelay(1000); ++i
ConnectDelay ==
    /\ pc = "c_delay"
    /\ trace' = Append(trace, DelayEvent(AttachDelayMs))
    /\ i' = i + 1
    /\ pc' = "c_poll"
    /\ last' = NoIo
    /\ UNCHANGED <<config, frameIdCntr, op, ret, calls, devPending,
                 attachedOnce, failedConnects, arg, vtable>>

\* loop exit: return false
ConnectFail ==
    /\ pc = "c_poll"
    /\ ~PollAgain(i)
    /\ pc' = "idle"
    /\ ret' = FALSE
    /\ failedConnects' = failedConnects + 1
    /\ last' = NoIo
    /\ UNCHANGED <<config, frameIdCntr, i, op, calls, devPending,
                 attachedOnce, trace, arg, vtable>>

Connected ==
    /\ Call("connected", NoArg)
    /\ \E wr \in BOOLEAN : \E kinds \in WaitArrivals(wr, devPending) :
          XBeeCellularConnected(<<>>, wr, kinds)
    /\ ret' = ConnectedResult(last'.status, last'.response)
    /\ UNCHANGED <<config, pc, i, attachedOnce, failedConnects,
                 vtable>>

\* mutant: the send status is not looked at
ShutdownResult_Always(status) == TRUE

\* return (status == API_SEND_SUCCESS);
ShutdownResult(status) == status = API_SEND_SUCCESS

\* XBeeCellularDisconnect and XBeeCellularSoftReset: one AT SD, no wait
SendShutdown(name) ==
    /\ Call(name, NoArg)
    /\ \E wr \in BOOLEAN :
          LET r == apiSendAtCommand("AT_SD", wr, frameIdCntr, devPending)
          IN  /\ frameIdCntr' = r.cntr
              /\ devPending' = r.pend
              /\ last' = [NoIo EXCEPT !.status = r.status]
              /\ ret' = ShutdownResult(r.status)
    /\ trace' = <<AtEvent("AT_SD", NullPtr)>>
    /\ UNCHANGED <<config, pc, i, attachedOnce, failedConnects,
                 vtable>>

Disconnect == SendShutdown("disconnect")

SoftReset == SendShutdown("softReset")

\* XBeeCellularProcess: one decode attempt, dispatched when it succeeds
Process ==
    /\ Call("process", NoArg)
    /\ \E k \in ProcessKinds :
          /\ k = "pend" => devPending # <<>>
          /\ LET o == Resolve(<<k>>, frameIdCntr, devPending)[1]
             IN  /\ last' = [status |-> o.status, response |-> 0,
                             dispatched |-> ProcessDispatch(o)]
                 /\ devPending' = Drop(devPending, CountPend(<<k>>))
    /\ trace' = <<DecodeEvent>>
    /\ ret' = FALSE
    /\ UNCHANGED <<config, frameIdCntr, pc, i, attachedOnce, failedConnects, vtable>>

\* mutant: only the access point name is stored
ConfigureStore_ApnOnly(old, cfg) == [old EXCEPT !.apn = cfg.apn]

\* cell->config = *cfg;
ConfigureStore(old, cfg) == cfg

\* if (!self || !config) return false;
ConfigureArgsOk(self, cfg) == self # "NULL" /\ cfg # NullPtr

\* arguments the application passes to configure()
ConfigureArgs ==
    [self : {"handle", "NULL"}, config : ConfigInputs \cup {NullPtr}]

\* XBeeCellularConfigure
Configure ==
    /\ \E a \in ConfigureArgs :
          /\ Call("configure", a)
          /\ IF ConfigureArgsOk(a.self, a.config)
             THEN /\ ret' = TRUE
                  /\ config' = ConfigureStore(config, a.config)
             ELSE /\ ret' = FALSE
                  /\ UNCHANGED config
    /\ trace' = <<>>
    /\ last' = NoIo
    /\ UNCHANGED <<frameIdCntr, pc, i, devPending, attachedOnce,
                   failedConnects, vtable>>

\* arguments the application passes to init()
InitArgs ==
    { [self |-> "handle", baudRate |-> 9600, device |-> "COM1"],
      [self |-> "handle", baudRate |-> 115200, device |-> "ttyUSB0"] }

\* results of the transport's PortUartInit
UartInitResults == {"UART_SUCCESS", "UART_INIT_FAILED"}

UartInitEvent(baudRate, device) ==
    [ev |-> "UART_INIT", cmd |-> device, param |-> <<>>, len |-> 0,
     ms |-> 0, baudRate |-> baudRate]

\* mutant: the status of PortUartInit is not looked at
InitResult_Ignore(u) == TRUE

\* (PortUartInit(baudRate, device)) == UART_SUCCESS ? true : false
InitResult(u) == u = "UART_SUCCESS"

\* XBeeCellularInit: one PortUartInit
CellularInit ==
    /\ \E a \in InitArgs : \E u \in UartInitResults :
          /\ Call("init", a)
          /\ trace' = <<UartInitEvent(a.baudRate, a.device)>>
          /\ last' = [NoIo EXCEPT !.status = u]
          /\ ret' = InitResult(u)
    /\ UNCHANGED <<config, frameIdCntr, pc, i, devPending, attachedOnce,
                   failedConnects, vtable>>

\* XBeeCellularHardReset: empty
HardReset ==
    /\ Call("hardReset", NoArg)
    /\ trace' = <<>>
    /\ last' = NoIo
    /\ ret' = FALSE
    /\ UNCHANGED <<config, frameIdCntr, pc, i, devPending, attachedOnce,
                   failedConnects, vtable>>

\* packets the application passes to sendData()
Packet(payload) ==
    [self |-> "handle", protocol |-> 1, port |-> 80, ip |-> <<10, 0, 0, 1>>,
     payload |-> payload, payloadSize |-> Len(payload)]
Packets == {Packet(<<>>), Packet(<<116, 101, 115, 116>>)}

\* mutant: the counter is advanced when it is read
SendDataReadCounter_Advance(cntr) ==
    [id |-> cntr, cntr |-> (cntr + 1) % FrameIdModulus]

\* uint8_t frameId = self->frameIdCntr;
SendDataReadCounter(cntr) == [id |-> cntr, cntr |-> cntr]

\* the bytes XBeeCellularSendData puts into frame[] and the length it
\* hands to apiSendFrame (uint8_t offset)
SendDataFrame(frameId, packet) ==
    LET header == <<frameId, packet.protocol, packet.port \div Uint8Modulus,
                    packet.port % Uint8Modulus>> \o packet.ip
        body == SubSeq(packet.payload, 1, packet.payloadSize)
    IN  [data |-> header \o body,
         len |-> (Len(header) + packet.payloadSize) % Uint8Modulus]

\* return (status == API_SEND_SUCCESS) ? 0x00 : 0xFF;
SendDataResult(status) == IF status = API_SEND_SUCCESS THEN 0 ELSE 255

\* XBeeCellularSendData: one frame of type CELLULAR_TX_IPV4
SendData ==
    /\ \E packet \in Packets : \E wr \in BOOLEAN :
          /\ Call("sendData", packet)
          /\ LET c == SendDataReadCounter(frameIdCntr)
                 f == SendDataFrame(c.id, packet)
                 r == apiSendFrame("CELLULAR_TX_IPV4", f.data, f.len, wr, c.cntr)
             IN  /\ frameIdCntr' = r.cntr
                 /\ trace' = <<FrameEvent("CELLULAR_TX_IPV4", f.data, f.len)>>
                 /\ last' = [NoIo EXCEPT !.status = r.status]
                 /\ ret' = SendDataResult(r.status)
    /\ UNCHANGED <<config, pc, i, devPending, attachedOnce, failedConnects, vtable>>

Init ==
    /\ config \in Configs
    /\ frameIdCntr \in InitFrameIds
    /\ pc = "idle"
    /\ i = 0
    /\ op = "none"
    /\ ret = FALSE
    /\ calls = 0
    /\ devPending = <<>>
    /\ attachedOnce = FALSE
    /\ failedConnects = 0
    /\ trace = <<>>
    /\ last = NoIo
    /\ arg = NoArg
    /\ vtable = XBeeCellularVTable

Next ==
    \/ ConnectCall
    \/ ConnectSimPin
    \/ ConnectApn
    \/ ConnectCarrier
    \/ ConnectPoll
    \/ ConnectDelay
    \/ ConnectFail
    \/ Connected
    \/ Disconnect
    \/ SoftReset
    \/ Process
    \/ Configure
    \/ SendData
    \/ CellularInit
    \/ HardReset

Spec == Init /\ [][Next]_vars

(***************************************************************************)
(* Construction: XBeeCellularCreate                                        *)
(***************************************************************************)
\* the handle's fields before a handle exists
Unallocated == "unallocated"

\* what malloc(sizeof(XBeeCellular)) returns
MallocResults == {"block", "NULL"}

\* a store through the pointer malloc returned when that pointer is null
NullStoreEvent(field) ==
    [ev |-> "STORE_NULL", cmd |-> field, param |-> <<>>, len |-> 0, ms |-> 0]

\* XBeeCellularCreate.  The result of malloc is not tested.  With a block,
\* the three base fields are stored and config and frameIdCntr keep what
\* the block held.  With a null pointer the first store is undefined
\* behaviour: the program traps there, or (address 0 writable) all three
\* stores land and the null pointer is returned.
Create ==
    /\ pc = "nohandle"
    /\ op' = "create"
    /\ arg' = [cTable |-> "cTable", hTable |-> "hTable"]
    /\ \E mem \in MallocResults :
          IF mem # "NULL"
          THEN /\ config' \in Configs
               /\ frameIdCntr' \in InitFrameIds
               /\ vtable' = XBeeCellularVTable
               /\ pc' = "idle"
               /\ ret' = "handle"
               /\ trace' = <<>>
               /\ last' = NoIo
          ELSE /\ \/ /\ pc' = "trapped"
                     /\ trace' = <<NullStoreEvent("base.vtable")>>
                     /\ ret' = "none"
                  \/ /\ pc' = "nohandle_returned"
                     /\ trace' = <<NullStoreEvent("base.vtable"),
                                   NullStoreEvent("base.ctable"),
                                   NullStoreEvent("base.htable")>>
                     /\ ret' = "NULL"
               /\ last' = [NoIo EXCEPT !.status = "MALLOC_NULL"]
               /\ UNCHANGED <<config, frameIdCntr, vtable>>
    /\ UNCHANGED <<i, calls, devPending, attachedOnce, failedConnects>>

InitCreate ==
    /\ config = Unallocated
    /\ frameIdCntr = Unallocated
    /\ vtable = Unallocated
    /\ pc = "nohandle"
    /\ i = 0
    /\ op = "none"
    /\ ret = FALSE
    /\ calls = 0
    /\ devPending = <<>>
    /\ attachedOnce = FALSE
    /\ failedConnects = 0
    /\ trace = <<>>
    /\ last = NoIo
    /\ arg = NoArg

NextCreate ==
    \/ Create
    \/ Next

SpecCreate == InitCreate /\ [][NextCreate]_vars

(***************************************************************************)
(* One blocking exchange on its own: apiSendAtCommandAndGetResponse over   *)
(* every sequence of up to MaxWaitFrames decode outcomes                   *)
(***************************************************************************)
AllWaitKinds == WaitKinds \cup {"rx", "txstatus", "otherid"}

\* commands the device may still have to answer when the exchange starts
WaitPendings ==
    { <<>>,
      <<[id |-> 248, cmd |-> "AT_PN"]>>,
      <<[id |-> 248, cmd |-> "AT_PN"], [id |-> 249, cmd |-> "AT_AN"]>> }

\* what is read before the wait ends: the awaited response, if it comes,
\* is the last frame read
WaitInputs ==
    { a \in [self : {"handle"}, wr : BOOLEAN, wid : InitFrameIds,
             pend : WaitPendings,
             kinds : SeqsUpTo(AllWaitKinds, MaxWaitFrames)] :
        /\ CountPend(a.kinds) <= Len(a.pend)
        /\ \A j \in 1..Len(a.kinds) :
              a.kinds[j] \in {"attached", "registering", "novalue"}
                 => j = Len(a.kinds) }

InitWait ==
    /\ arg \in WaitInputs
    /\ frameIdCntr = arg.wid
    /\ devPending = arg.pend
    /\ config = [simPin |-> NullPtr, apn |-> NullPtr, carrier |-> NullPtr]
    /\ vtable = XBeeCellularVTable
    /\ pc = "w_ready"
    /\ i = 0
    /\ op = "none"
    /\ ret = FALSE
    /\ calls = 0
    /\ attachedOnce = FALSE
    /\ failedConnects = 0
    /\ trace = <<>>
    /\ last = NoIo

\* XBeeCellularConnected: apiSendAtCommandAndGetResponse(self, AT_AI, NULL,
\* 0, .., 5000), then the test of status and response
WaitExchange ==
    /\ pc = "w_ready"
    /\ pc' = "w_done"
    /\ op' = "exchange"
    /\ XBeeCellularConnected(<<>>, arg.wr, arg.kinds)
    /\ ret' = ConnectedResult(last'.status, last'.response)
    /\ UNCHANGED <<config, i, calls, attachedOnce, failedConnects, arg,
                   vtable>>

NextWait == WaitExchange

SpecWait == InitWait /\ [][NextWait]_vars

(***************************************************************************)
(* One fire-and-forget send on its own: apiSendAtCommand over known and    *)
(* unknown commands                                                        *)
(***************************************************************************)
AtInputs ==
    [self : {"handle"}, cmd : AtCommands \cup {"0xFF"}, wr : BOOLEAN,
     cntr : {0, 1, 250, 255}, pend : WaitPendings]

WriteEvent(f) ==
    [ev |-> "WRITE", cmd |-> f.cmd, param |-> <<f.id>>, len |-> 1, ms |-> 0]

InitAt ==
    /\ arg \in AtInputs
    /\ frameIdCntr = arg.cntr
    /\ devPending = arg.pend
    /\ config = [simPin |-> NullPtr, apn |-> NullPtr, carrier |-> NullPtr]
    /\ vtable = XBeeCellularVTable
    /\ pc = "a_ready"
    /\ i = 0
    /\ op = "none"
    /\ ret = FALSE
    /\ calls = 0
    /\ attachedOnce = FALSE
    /\ failedConnects = 0
    /\ trace = <<>>
    /\ last = NoIo

\* apiSendAtCommand(self, cmd, NULL, 0)
AtSend ==
    /\ pc = "a_ready"
    /\ pc' = "a_done"
    /\ op' = "sendAtCommand"
    /\ LET r == apiSendAtCommand(arg.cmd, arg.wr, frameIdCntr, devPending)
       IN  /\ frameIdCntr' = r.cntr
           /\ devPending' = r.pend
           /\ last' = [NoIo EXCEPT !.status = r.status]
           /\ trace' = [j \in 1..Len(r.written) |-> WriteEvent(r.written[j])]
    /\ UNCHANGED <<config, i, ret, calls, attachedOnce, failedConnects, arg,
                   vtable>>

NextAt == AtSend

SpecAt == InitAt /\ [][NextAt]_vars

(***************************************************************************)
(* The codec on its own: encode, then decode of the encoded bytes          *)
(***************************************************************************)
CodecBytes == {0, 1, 126, 255}
CodecTypes == {8, 16, 136, 255}
LongPayload == [j \in 1..300 |-> j % Uint8Modulus]
CodecInputs ==
    [self : {"handle"}, type : CodecTypes,
     payload : SeqsUpTo(CodecBytes, MaxPayloadLen) \cup {<<1, 2, 3>>, LongPayload}]

BytesEvent(bytes) ==
    [ev |-> "BYTES", cmd |-> "", param |-> bytes, len |-> Len(bytes), ms |-> 0]

InitCodec ==
    /\ arg \in CodecInputs
    /\ frameIdCntr \in InitFrameIds
    /\ devPending = <<>>
    /\ config = [simPin |-> NullPtr, apn |-> NullPtr, carrier |-> NullPtr]
    /\ vtable = XBeeCellularVTable
    /\ pc = "e_ready"
    /\ i = 0
    /\ op = "none"
    /\ ret = FALSE
    /\ calls = 0
    /\ attachedOnce = FALSE
    /\ failedConnects = 0
    /\ trace = <<>>
    /\ last = NoIo

\* the bytes encode hands to the transport
EncodeFrame ==
    /\ pc = "e_ready"
    /\ pc' = "e_encoded"
    /\ op' = "encode"
    /\ trace' = <<BytesEvent(Encode(arg.type, arg.payload))>>
    /\ UNCHANGED <<config, frameIdCntr, i, ret, calls, devPending, attachedOnce,
                   failedConnects, last, arg, vtable>>

\* decode reads those bytes back
DecodeFrame ==
    /\ pc = "e_encoded"
    /\ pc' = "e_decoded"
    /\ op' = "decode"
    /\ LET d == DecodeBytes(trace[1].param)
       IN  last' = [status |-> d.status, response |-> 0, dispatched |-> <<>>,
                    frame |-> d.frame]
    /\ UNCHANGED <<config, frameIdCntr, i, ret, calls, devPending, attachedOnce,
                   failedConnects, trace, arg, vtable>>

NextCodec ==
    \/ EncodeFrame
    \/ DecodeFrame

SpecCodec == InitCodec /\ [][NextCodec]_vars

(***************************************************************************)
(* Socket send on its own (spec.md 4.6)                                    *)
(***************************************************************************)
SocketFrame(cntr, socketId, bytes) == <<cntr, socketId, 0>> \o bytes

\* mutant: the payload pointer is not tested
XBeeCellularSocketSend_NoNullCheck(socketId, payload, len, wr, cntr) ==
    LET data == SocketFrame(cntr, socketId, SubSeq(payload.s, 1, len))
        r == apiSendFrame("SOCKET_SEND", data, Len(data), wr, cntr)
    IN  [ret |-> r.status = API_SEND_SUCCESS, status |-> r.status,
         frames |-> <<FrameEvent("SOCKET_SEND", data, Len(data))>>,
         cntr |-> r.cntr]

\* XBeeCellularSocketSend(self, socketId, payload, len): a null payload is
\* rejected before anything is sent; otherwise one socket-send frame
XBeeCellularSocketSend(socketId, payload, len, wr, cntr) ==
    IF payload.isNull
    THEN [ret |-> FALSE, status |-> "NONE", frames |-> <<>>, cntr |-> cntr]
    ELSE LET data == SocketFrame(cntr, socketId, SubSeq(payload.s, 1, len))
             r == apiSendFrame("SOCKET_SEND", data, Len(data), wr, cntr)
         IN  [ret |-> r.status = API_SEND_SUCCESS, status |-> r.status,
              frames |-> <<FrameEvent("SOCKET_SEND", data, Len(data))>>,
              cntr |-> r.cntr]

SocketInputs ==
    { a \in [self : {"handle"}, socketId : {0, 1, 2, 255},
             payload : {NullPtr, StrPtr(<<1>>), StrPtr(<<1, 2>>)},
             len : {0, 1, 2, 255}, wr : BOOLEAN] :
        a.payload.isNull \/ a.len <= strlen(a.payload) }

InitSocket ==
    /\ arg \in SocketInputs
    /\ frameIdCntr \in InitFrameIds
    /\ devPending = <<>>
    /\ config = [simPin |-> NullPtr, apn |-> NullPtr, carrier |-> NullPtr]
    /\ vtable = XBeeCellularVTable
    /\ pc = "s_ready"
    /\ i = 0
    /\ op = "none"
    /\ ret = FALSE
    /\ calls = 0
    /\ attachedOnce = FALSE
    /\ failedConnects = 0
    /\ trace = <<>>
    /\ last = NoIo

SocketSend ==
    /\ pc = "s_ready"
    /\ pc' = "s_done"
    /\ op' = "socketSend"
    /\ LET r == XBeeCellularSocketSend(arg.socketId, arg.payload, arg.len,
                                       arg.wr, frameIdCntr)
       IN  /\ ret' = r.ret
           /\ trace' = r.frames
           /\ last' = [NoIo EXCEPT !.status = r.status]
           /\ frameIdCntr' = r.cntr
    /\ UNCHANGED <<config, i, calls, devPending, attachedOnce, failedConnects,
                   arg, vtable>>

NextSocket == SocketSend

SpecSocket == InitSocket /\ [][NextSocket]_vars

(***************************************************************************)
(* XBeeCellularSendData on its own, for payload sizes up to 255            *)
(***************************************************************************)
SendDataSizes == {0, 1, 4, 119, 120, 121, 127, 128, 247, 248, 255}
SendDataInputs ==
    { [self |-> "handle", wr |-> w,
       packet |-> Packet([j \in 1..n |-> j % Uint8Modulus])]
        : n \in SendDataSizes, w \in BOOLEAN }

\* the indexes of frame[] XBeeCellularSendData stores to: eight header
\* bytes, then memcpy of payloadSize bytes from index 8
SendDataWrites(packet) == 0..(8 + packet.payloadSize - 1)

\* one sendData call.  A store beyond frame[127] is undefined behaviour:
\* the call traps, or the stores land in the memory after the array and
\* the call goes on with the length its uint8_t offset holds.
SendDataAny ==
    /\ pc = "sd_ready"
    /\ op' = "sendData"
    /\ LET c == SendDataReadCounter(frameIdCntr)
           f == SendDataFrame(c.id, arg.packet)
           w == SendDataWrites(arg.packet)
           r == apiSendFrame("CELLULAR_TX_IPV4", f.data, f.len, arg.wr, c.cntr)
           top == CHOOSE x \in w : \A y \in w : y <= x
       IN  \/ /\ pc' = "sd_done"
              /\ frameIdCntr' = r.cntr
              /\ trace' = <<FrameEvent("CELLULAR_TX_IPV4", f.data, f.len)>>
              /\ last' = [status |-> r.status, response |-> 0,
                          dispatched |-> <<>>, maxIndex |-> top]
              /\ ret' = SendDataResult(r.status)
           \/ /\ top >= FrameBufSize
              /\ pc' = "sd_trapped"
              /\ trace' = <<>>
              /\ last' = [status |-> "TRAPPED", response |-> 0,
                          dispatched |-> <<>>, maxIndex |-> top]
              /\ UNCHANGED <<frameIdCntr, ret>>
    /\ UNCHANGED <<config, i, calls, devPending, attachedOnce, failedConnects,
                   arg, vtable>>

InitSendData ==
    /\ arg \in SendDataInputs
    /\ frameIdCntr \in {0, 250, 255}
    /\ devPending = <<>>
    /\ config = [simPin |-> NullPtr, apn |-> NullPtr, carrier |-> NullPtr]
    /\ vtable = XBeeCellularVTable
    /\ pc = "sd_ready"
    /\ i = 0
    /\ op = "none"
    /\ ret = FALSE
    /\ calls = 0
    /\ attachedOnce = FALSE
    /\ failedConnects = 0
    /\ trace = <<>>
    /\ last = NoIo

NextSendData == SendDataAny

SpecSendData == InitSendData /\ [][NextSendData]_vars

(***************************************************************************)
(* configure() and connect() with a caller that touches its strings        *)
(***************************************************************************)
ConfigFields == {"simPin", "apn", "carrier"}

\* what the caller's buffer may hold after it is rewritten, and what a read
\* through a pointer to released memory may find
CallerContents == {<<>>, <<120>>}

\* configure() has just stored the caller's pointers: cell->config = *cfg
\* copies the three pointers, so the handle's field and the caller's field
\* point to the same characters
SharesStrings(f) ==
    /\ pc = "idle"
    /\ op = "configure"
    /\ ret = TRUE
    /\ ~arg.config[f].isNull
    /\ config[f] = arg.config[f]

\* the caller overwrites one of the strings it passed to configure()
CallerWrites ==
    /\ \E f \in ConfigFields : \E c \in CallerContents :
          /\ SharesStrings(f)
          /\ arg.config[f].s # c
          /\ arg' = [arg EXCEPT !.config[f].s = c]
          /\ config' = [config EXCEPT ![f].s = c]
    /\ UNCHANGED <<frameIdCntr, pc, i, op, ret, calls, devPending, attachedOnce,
                   failedConnects, trace, last, vtable>>

\* the caller releases one of the strings it passed to configure(): the
\* handle's pointer dangles, and a read through it finds the old characters
\* or any others
CallerFrees ==
    /\ \E f \in ConfigFields :
          \E c \in CallerContents \cup {config[f].s} :
          /\ SharesStrings(f)
          /\ arg' = [arg EXCEPT !.config[f] = NullPtr]
          /\ config' = [config EXCEPT ![f].s = c]
    /\ UNCHANGED <<frameIdCntr, pc, i, op, ret, calls, devPending, attachedOnce,
                   failedConnects, trace, last, vtable>>

InitOwn ==
    /\ Init
    /\ config = [simPin |-> NullPtr, apn |-> NullPtr, carrier |-> NullPtr]

NextOwn ==
    \/ Configure
    \/ CallerWrites
    \/ CallerFrees
    \/ ConnectCall
    \/ ConnectSimPin
    \/ ConnectApn
    \/ ConnectCarrier
    \/ ConnectPoll
    \/ ConnectDelay
    \/ ConnectFail

SpecOwn == InitOwn /\ [][NextOwn]_vars

(***************************************************************************)
(* Reading the trace                                                       *)
(***************************************************************************)
IsPoll(e) == e.ev = "EXCHANGE" /\ e.cmd = "AT_AI"
IsDelay(e) == e.ev = "DELAY"
IsConfigCmd(e) == e.ev = "AT" /\ e.cmd \in {"AT_PN", "AT_AN", "AT_CP"}

Polls(t) == Len(SelectSeq(t, IsPoll))
Delays(t) == Len(SelectSeq(t, IsDelay))
ConfigCmds(t) == SelectSeq(t, IsConfigCmd)

InConnect == op = "connect" /\ pc # "idle"
ConnectReturned == op = "connect" /\ pc = "idle"
PollingStarted == op = "connect" /\ (pc \in {"c_poll", "c_delay"} \/ pc = "idle")

LastEvent(t) == t[Len(t)]
PollJustAttached ==
    /\ op = "connect"
    /\ trace # <<>>
    /\ IsPoll(LastEvent(trace))
    /\ last.status = "SUCCESS"
    /\ last.response = 0

\* the command and parameter connect() owes to a configuration field
Owed(p, cmd) ==
    IF p.isNull = FALSE /\ p.s # <<>>
    THEN <<[ev |-> "AT", cmd |-> cmd, param |-> p.s, len |-> Len(p.s), ms |-> 0]>>
    ELSE <<>>
OwedConfigCmds(c) ==
    Owed(c.simPin, "AT_PN") \o Owed(c.apn, "AT_AN") \o Owed(c.carrier, "AT_CP")
NonEmptyFields(c) ==
    Cardinality({f \in {"simPin", "apn", "carrier"} : c[f].isNull = FALSE /\ c[f].s # <<>>})

C2_FirstAttachedReturns ==
    /\ PollJustAttached => (pc = "idle" /\ ret)
    /\ (ConnectReturned /\ ret) =>
          /\ Polls(trace) \in 1..20
          /\ Delays(trace) = Polls(trace) - 1
          /\ IsPoll(LastEvent(trace))
          /\ i = Polls(trace) - 1

C2_Witness == ConnectReturned /\ ret /\ Polls(trace) = 3 /\ Delays(trace) = 2

(***************************************************************************)
(* C3: at most one AT command written to the device is awaiting its        *)
(* response (neither answered to the host nor timed out); stated for the   *)
(* case the claim singles out, a connect() on a fresh handle.              *)
(***************************************************************************)
C3_OneOutstanding == (op = "connect" /\ calls = 1) => Len(devPending) <= 1

(***************************************************************************)
(* C4: once connect() has applied the configuration, the configuration     *)
(* commands it sent are exactly one per non-null, non-empty field, in      *)
(* field order SIM PIN, APN, carrier, each carrying the whole string, and  *)
(* their number is the number of non-empty fields.                         *)
(***************************************************************************)
C4_OneCommandPerField ==
    PollingStarted =>
        /\ ConfigCmds(trace) = OwedConfigCmds(config)
        /\ Len(ConfigCmds(trace)) = NonEmptyFields(config)

C4_Witness ==
    /\ op = "connect" /\ pc = "c_poll"
    /\ config.simPin = StrPtr(<<1, 2, 3, 4>>)
    /\ config.apn = StrPtr(<<>>)
    /\ config.carrier = NullPtr
    /\ Len(ConfigCmds(trace)) = 1

(***************************************************************************)
(* C5: in the calls one connect() makes, AT PN comes before AT AN and      *)
(* AT CP, AT AN before AT CP, and no configuration command comes after a   *)
(* poll or a delay.                                                        *)
(***************************************************************************)
CmdRank(c) == CASE c = "AT_PN" -> 1 [] c = "AT_AN" -> 2 [] c = "AT_CP" -> 3 [] OTHER -> 4

C5_ConfigBeforePolls ==
    op = "connect" =>
        \A a, b \in 1..Len(trace) :
            (a < b /\ IsConfigCmd(trace[b])) =>
                /\ IsConfigCmd(trace[a])
                /\ CmdRank(trace[a].cmd) < CmdRank(trace[b].cmd)

C5_Witness ==
    /\ op = "connect"
    /\ Len(ConfigCmds(trace)) = 3
    /\ Polls(trace) = 2

(***************************************************************************)
(* C6: after connect() has returned false the driver takes no step until   *)
(* the caller calls an operation, and a connect() called after a failed    *)
(* one applies the stored configuration again and counts its polls from    *)
(* zero: it fails only after 20 polls of its own.                          *)
(***************************************************************************)
C6_Inv ==
    (op = "connect" /\ failedConnects >= 1) =>
        /\ PollingStarted => ConfigCmds(trace) = OwedConfigCmds(config)
        /\ pc = "c_poll" => Polls(trace) = i
        /\ pc = "c_delay" => Polls(trace) = i + 1
        /\ (pc = "idle" /\ ~ret) => Polls(trace) = 20

C6_FreshConnectAfterFailure ==
    /\ []C6_Inv
    /\ [][(ConnectReturned /\ ~ret) => (calls' = calls + 1 /\ op' # "none")]_vars

C6_Witness ==
    /\ op = "connect" /\ failedConnects = 1 /\ calls = 2
    /\ pc = "c_poll" /\ i = 1
    /\ Len(ConfigCmds(trace)) = 3

(***************************************************************************)
(* C7: PortDelay is called only during connect(), with 1000 ms, between    *)
(* two attachment polls: the call before it and the call after it are      *)
(* polls, so a connect() that has returned made no delay after its last    *)
(* poll.                                                                   *)
(***************************************************************************)
C7_DelayOnlyBetweenPolls ==
    /\ \A j \in 1..Len(trace) :
          IsDelay(trace[j]) =>
              /\ op = "connect"
              /\ trace[j].ms = 1000
              /\ j > 1 /\ IsPoll(trace[j - 1])
              /\ j < Len(trace) => IsPoll(trace[j + 1])
    /\ (ConnectReturned /\ trace # <<>>) => ~IsDelay(LastEvent(trace))

(***************************************************************************)
(* C8: connect() terminates: while it runs it always has a next step,      *)
(* every step strictly decreases a natural-valued measure, and it never    *)
(* makes more than 3 configuration commands, 20 polls and 20 delays.       *)
(***************************************************************************)
ConnectStep ==
    \/ ConnectSimPin \/ ConnectApn \/ ConnectCarrier
    \/ ConnectPoll \/ ConnectDelay \/ ConnectFail

Measure ==
    CASE pc = "c_pin" -> 44
      [] pc = "c_apn" -> 43
      [] pc = "c_carrier" -> 42
      [] pc = "c_poll" -> 2 * (20 - i) + 1
      [] pc = "c_delay" -> 2 * (20 - i)
      [] OTHER -> 0

C8_Inv ==
    /\ Measure >= 0
    /\ InConnect => ENABLED ConnectStep
    /\ op = "connect" =>
          /\ Len(ConfigCmds(trace)) <= 3
          /\ Polls(trace) <= 20
          /\ Delays(trace) <= 20
          /\ Len(trace) = Len(ConfigCmds(trace)) + Polls(trace) + Delays(trace)

C8_ConnectTerminates ==
    /\ []C8_Inv
    /\ [][InConnect => Measure' < Measure]_vars

C8_Witness ==
    /\ ConnectReturned
    /\ Len(ConfigCmds(trace)) = 3 /\ Polls(trace) = 20 /\ Delays(trace) = 20

(***************************************************************************)
(* C9: connected() makes exactly one call, a blocking AT AI exchange with  *)
(* no parameter and a 5000 ms timeout, and returns true exactly when the   *)
(* exchange returned success and the response byte is 0.                   *)
(***************************************************************************)
ConnectedReturned == op = "connected" /\ pc = "idle"

C9_ConnectedOneExchange ==
    ConnectedReturned =>
        /\ trace = <<[ev |-> "EXCHANGE", cmd |-> "AT_AI", param |-> <<>>,
                      len |-> 0, ms |-> 5000]>>
        /\ ret = (last.status = "SUCCESS" /\ last.response = 0)

C9_Witness ==
    ConnectedReturned /\ ret /\ last.status = "SUCCESS" /\ last.response = 0

(***************************************************************************)
(* C10: a process() call makes exactly one decode attempt and dispatches   *)
(* exactly one frame when the decode succeeded, none when it failed.       *)
(***************************************************************************)
ProcessReturned == op = "process" /\ pc = "idle"

C10_ProcessOneCycle ==
    ProcessReturned =>
        /\ trace = <<DecodeEvent>>
        /\ last.status = "SUCCESS" => Len(last.dispatched) = 1
        /\ last.status # "SUCCESS" => last.dispatched = <<>>

C10_Witness ==
    ProcessReturned /\ last.status = "CHECKSUM" /\ last.dispatched = <<>>

(***************************************************************************)
(* C11: sendData(packet) hands the frame layer exactly one frame, of type  *)
(* CELLULAR_TX_IPV4, whose declared length is packet.payloadSize + 7, and  *)
(* returns 0x00 when the frame layer reports success.                      *)
(***************************************************************************)
SendDataReturned == op = "sendData" /\ pc = "idle"

C11_SendDataLengthPlus7 ==
    SendDataReturned =>
        /\ Len(trace) = 1
        /\ trace[1].ev = "FRAME"
        /\ trace[1].cmd = "CELLULAR_TX_IPV4"
        /\ trace[1].len = arg.payloadSize + 7
        /\ last.status = "SUCCESS" => ret = 0

(***************************************************************************)
(* C12: disconnect() and softReset() each send exactly one AT SD with no   *)
(* parameter through the fire-and-forget send, read no response (the       *)
(* command they wrote is still unanswered when they return) and return     *)
(* true exactly when the send status is success.                           *)
(***************************************************************************)
ShutdownReturned == op \in {"disconnect", "softReset"} /\ pc = "idle"

C12_ShutdownFireAndForget ==
    ShutdownReturned =>
        /\ trace = <<[ev |-> "AT", cmd |-> "AT_SD", param |-> <<>>,
                      len |-> 0, ms |-> 0]>>
        /\ last.dispatched = <<>>
        /\ ret = (last.status = "SUCCESS")
        /\ ret => /\ devPending # <<>>
                  /\ devPending[Len(devPending)].cmd = "AT_SD"
                  /\ devPending[Len(devPending)].id
                        = (frameIdCntr + FrameIdModulus - 1) % FrameIdModulus

C12_Witness ==
    /\ op = "disconnect" /\ pc = "idle" /\ ret
    /\ devPending = <<[id |-> 250, cmd |-> "AT_SD"]>>

(***************************************************************************)
(* C13: configure(config) with a non-null handle and a non-null config     *)
(* returns true and the stored apn, simPin and carrier are the config's    *)
(* (the last configure wins); with a null handle or a null config it       *)
(* returns false and the stored configuration is unchanged; in neither     *)
(* case is an AT command sent or the transport used.                       *)
(***************************************************************************)
ConfigureReturned == op = "configure" /\ pc = "idle"
ConfigureStep == op' = "configure" /\ calls' = calls + 1

C13_Inv ==
    ConfigureReturned =>
        /\ (arg.self # "NULL" /\ arg.config # NullPtr) =>
              /\ ret
              /\ config.apn = arg.config.apn
              /\ config.simPin = arg.config.simPin
              /\ config.carrier = arg.config.carrier
        /\ (arg.self = "NULL" \/ arg.config = NullPtr) => ~ret
        /\ trace = <<>>
        /\ last = NoIo

C13_ConfigureStoresOrRejects ==
    /\ []C13_Inv
    /\ [][ConfigureStep =>
            /\ ~ret' => config' = config
            /\ UNCHANGED <<frameIdCntr, devPending>>]_vars

C13_Witness ==
    /\ ConfigureReturned /\ calls = 2 /\ ret
    /\ config = arg.config
    /\ config.simPin = StrPtr(<<>>)

(***************************************************************************)
(* C14: init(baud, device) calls the transport's UART init exactly once,   *)
(* with the same baud rate and device, and returns true exactly when that  *)
(* call reports UART success; it sends no frame and changes nothing else   *)
(* of the handle.                                                          *)
(***************************************************************************)
InitReturned == op = "init" /\ pc = "idle"
InitStep == op' = "init" /\ calls' = calls + 1

C14_Inv ==
    InitReturned =>
        /\ Len(trace) = 1
        /\ trace[1].ev = "UART_INIT"
        /\ trace[1].baudRate = arg.baudRate
        /\ trace[1].cmd = arg.device
        /\ ret = (last.status = "UART_SUCCESS")
        /\ last.dispatched = <<>>

C14_InitOneUartInit ==
    /\ []C14_Inv
    /\ [][InitStep =>
            UNCHANGED <<config, frameIdCntr, devPending, vtable, pc, i>>]_vars

C14_Witness ==
    InitReturned /\ ~ret /\ last.status = "UART_INIT_FAILED"

(***************************************************************************)
(* C15: once init() has returned false, the next sendData(), disconnect()  *)
(* or process() reports failure and performs no transport read or write.   *)
(***************************************************************************)
C15_FailedInitUnusable ==
    [][(InitReturned /\ ~ret /\ calls' = calls + 1
          /\ op' \in {"sendData", "disconnect", "process"}) =>
            /\ trace' = <<>>
            /\ op' = "sendData" => ret' = 255
            /\ op' = "disconnect" => ret' = FALSE]_vars

(***************************************************************************)
(* C16: when the allocation of the handle fails, create() returns the null *)
(* handle to its caller and makes no store through the pointer it did not  *)
(* get.                                                                    *)
(***************************************************************************)
C16_CreateSurfacesAllocFailure ==
    (op = "create" /\ last.status = "MALLOC_NULL") =>
        /\ ret = "NULL"
        /\ trace = <<>>
        /\ pc # "trapped"

(***************************************************************************)
(* C17: the frame-identifier counter changes only in a step that sends an  *)
(* AT command, and then by one (modulo 256); sendData(), process(),        *)
(* configure(), init() and hardReset() leave it unchanged; sendData() uses *)
(* the counter's value as frame id without advancing it, so a sendData()   *)
(* called right after a sendData() carries the same frame id.              *)
(***************************************************************************)
NonAtOps == {"sendData", "process", "configure", "init", "hardReset"}
FrameIdOf(t) == t[1].param[1]

C17_CounterOnlyByAtSend ==
    [][/\ frameIdCntr' # frameIdCntr =>
            /\ trace' # <<>>
            /\ LastEvent(trace').ev \in {"AT", "EXCHANGE"}
            /\ frameIdCntr' = (frameIdCntr + 1) % FrameIdModulus
       /\ (calls' = calls + 1 /\ op' \in NonAtOps) =>
            frameIdCntr' = frameIdCntr
       /\ (calls' = calls + 1 /\ op' = "sendData") =>
            FrameIdOf(trace') = frameIdCntr
       /\ (SendDataReturned /\ calls' = calls + 1 /\ op' = "sendData") =>
            FrameIdOf(trace') = FrameIdOf(trace)]_vars

C17_Witness ==
    /\ SendDataReturned /\ calls = 2
    /\ FrameIdOf(trace) = 250
    /\ frameIdCntr = 250

(***************************************************************************)
(* C18: the handle create() returns is bound to the cellular capability    *)
(* table; the table has every required operation set and exactly the two   *)
(* hooks handleRxPacketFrame and handleTransmitStatusFrame unset; the      *)
(* binding never changes afterwards; a receive-packet or transmit-status   *)
(* frame dispatched for the handle goes to the generic handler, without    *)
(* error.                                                                  *)
(***************************************************************************)
RequiredOps ==
    {"init", "process", "connect", "disconnect", "sendData", "softReset",
     "hardReset", "connected", "configure"}
OptionalHooks == {"handleRxPacketFrame", "handleTransmitStatusFrame"}
HandleExists == pc \notin {"nohandle", "trapped", "nohandle_returned"}

C18_Inv ==
    HandleExists =>
        /\ DOMAIN vtable = RequiredOps \cup OptionalHooks
        /\ \A f \in RequiredOps : vtable[f] # "NULL"
        /\ \A f \in OptionalHooks : vtable[f] = "NULL"
        /\ \A j \in 1..Len(last.dispatched) :
              LET f == last.dispatched[j]
                  h == HandleFrame(vtable, f)
              IN  /\ ~h.error
                  /\ f.type = "RX_PACKET" => h.route = "generic_rx"
                  /\ f.type = "TRANSMIT_STATUS" => h.route = "generic_tx_status"

C18_TableBoundOnce ==
    /\ []C18_Inv
    /\ [][HandleExists => vtable' = vtable]_vars

C18_Witness ==
    /\ op = "process" /\ pc = "idle"
    /\ last.dispatched = <<RxPacket>>
    /\ vtable.handleRxPacketFrame = "NULL"
    /\ vtable.configure = "XBeeCellularConfigure"

(***************************************************************************)
(* C19: an exchange whose command was written returns Timeout when none of *)
(* the frames decoded before the deadline is an AT response carrying the   *)
(* frame id sent, whatever other frames (modem status, received data,      *)
(* transmit status, AT responses with another frame id) or decode errors   *)
(* occur during the wait; it returns success only when the awaited         *)
(* response was read.                                                      *)
(***************************************************************************)
WaitDone == pc = "w_done" /\ arg.wr
Arrived == Resolve(arg.kinds, arg.wid, arg.pend)
IsAwaited(o, wid) ==
    o.status = "SUCCESS" /\ o.frame.type = "AT_RESPONSE" /\ o.frame.id = wid
AwaitedAt == {j \in 1..Len(Arrived) : IsAwaited(Arrived[j], arg.wid)}

C19_TimeoutWithoutMatch ==
    WaitDone =>
        /\ AwaitedAt = {} => last.status = "TIMEOUT"
        /\ last.status = "SUCCESS" => AwaitedAt # {}

C19_Witness ==
    /\ WaitDone
    /\ arg.kinds = <<"modem", "otherid", "rx">>
    /\ last.status = "TIMEOUT"

(***************************************************************************)
(* C20: the frames handed to the dispatcher during a wait are exactly the  *)
(* frames decoded successfully before the awaited response (all of them    *)
(* when the wait times out), each once and in arrival order.               *)
(***************************************************************************)
DecodedOk(o) == o.status = "SUCCESS"
BeforeAwaited ==
    IF AwaitedAt = {} THEN Arrived
    ELSE SubSeq(Arrived, 1, (CHOOSE j \in AwaitedAt : \A k \in AwaitedAt : j <= k) - 1)
ToDispatch ==
    LET ok == SelectSeq(BeforeAwaited, DecodedOk)
    IN  [j \in 1..Len(ok) |-> ok[j].frame]

C20_DispatchesAllInOrder ==
    WaitDone => last.dispatched = ToDispatch

C20_Witness ==
    /\ WaitDone
    /\ arg.kinds = <<"rx", "modem", "attached">>
    /\ last.status = "SUCCESS"
    /\ last.dispatched = <<RxPacket, ModemStatus>>

(***************************************************************************)
(* C21: apiSendAtCommand with a command outside the AT-command enumeration *)
(* returns InvalidCommand, hands nothing to the transport and leaves the   *)
(* frame-identifier counter unchanged; with a known command it writes one  *)
(* frame carrying the counter's value and returns success exactly when the *)
(* transport accepted the bytes.                                           *)
(***************************************************************************)
AtSendDone == pc = "a_done"
KnownAtCommands == {"AT_PN", "AT_AN", "AT_CP", "AT_AI", "AT_SD"}

C21_InvalidCommandSendsNothing ==
    AtSendDone =>
        /\ arg.cmd \notin KnownAtCommands =>
              /\ last.status = "INVALID_COMMAND"
              /\ trace = <<>>
              /\ frameIdCntr = arg.cntr
              /\ devPending = arg.pend
        /\ arg.cmd \in KnownAtCommands =>
              /\ Len(trace) = 1
              /\ trace[1].param = <<arg.cntr>>
              /\ (last.status = "SUCCESS") = arg.wr

C21_Witness ==
    /\ AtSendDone
    /\ arg.cmd = "0xFF" /\ arg.cntr = 255
    /\ last.status = "INVALID_COMMAND"
    /\ frameIdCntr = 255

(***************************************************************************)
(* C22: decoding the bytes encode(type, payload) produced succeeds and     *)
(* yields the same type, the same payload bytes and the same length, for   *)
(* every type and payload encoded.                                         *)
(***************************************************************************)
C22_RoundTrip ==
    pc = "e_decoded" =>
        /\ last.status = "SUCCESS"
        /\ last.frame.type = arg.type
        /\ last.frame.data = arg.payload
        /\ last.frame.length = Len(arg.payload)

C22_Witness ==
    /\ pc = "e_decoded"
    /\ arg.payload = <<126, 255, 0>>
    /\ last.status = "SUCCESS"
    /\ last.frame.data = <<126, 255, 0>>

(***************************************************************************)
(* C23 as stated: encode(0x10, [0x01, 0x02, 0x03]) produces the bytes      *)
(* 7E 00 04 10 01 02 03 EA.                                                *)
(***************************************************************************)
Encoded == trace[1].param
Scenario == pc = "e_encoded" /\ arg.type = 16 /\ arg.payload = <<1, 2, 3>>

C23_ScenarioEndsInEA ==
    Scenario => Encoded = <<126, 0, 4, 16, 1, 2, 3, 234>>

(***************************************************************************)
(* C23 amended: encode(0x10, [0x01, 0x02, 0x03]) produces the bytes        *)
(* 7E 00 04 10 01 02 03 E9; the last byte of every encoded frame is        *)
(* 0xFF - ((sum of type and payload bytes) mod 256).                       *)
(***************************************************************************)
C23_ScenarioEndsInE9 ==
    /\ Scenario => Encoded = <<126, 0, 4, 16, 1, 2, 3, 233>>
    /\ pc = "e_encoded" =>
          Encoded[Len(Encoded)] = 255 - ((arg.type + Sum(arg.payload)) % 256)

C23_Witness == Scenario /\ Encoded[8] = 233

(***************************************************************************)
(* C24: socket send with a null payload returns false, hands no frame to   *)
(* the frame layer and writes nothing to the transport, whatever the       *)
(* socket identifier and the declared length.                              *)
(***************************************************************************)
SocketSendDone == pc = "s_done"

C24_NullPayloadRejected ==
    (SocketSendDone /\ arg.payload.isNull) =>
        /\ ret = FALSE
        /\ trace = <<>>
        /\ last.status = "NONE"

C24_Witness ==
    /\ SocketSendDone
    /\ arg.payload.isNull /\ arg.len = 255 /\ arg.socketId = 255 /\ arg.wr
    /\ ret = FALSE

(***************************************************************************)
(* C25: for a packet with payloadSize n in 0..255 sendData() hands the     *)
(* frame layer the bytes frame id (the counter), protocol, port high, port *)
(* low, the 4 address bytes and the n payload bytes, with declared length  *)
(* 8 + n, and returns 0x00 when the frame layer reports success, 0xFF      *)
(* otherwise.                                                              *)
(***************************************************************************)
SendDataEnded == pc \in {"sd_done", "sd_trapped"}

C25_LayoutAndLength ==
    SendDataEnded =>
        /\ Len(trace) = 1
        /\ trace[1].param =
              <<frameIdCntr, arg.packet.protocol,
                arg.packet.port \div 256, arg.packet.port % 256>>
                 \o arg.packet.ip \o arg.packet.payload
        /\ trace[1].len = 8 + arg.packet.payloadSize
        /\ ret = IF last.status = "SUCCESS" THEN 0 ELSE 255

(***************************************************************************)
(* C26: for a packet with payloadSize in 0..255 every index of the frame   *)
(* buffer sendData() stores to is in 0..127, and a packet that does not    *)
(* fit is rejected, nothing being handed to the frame layer.               *)
(***************************************************************************)
C26_StaysInsideBuffer ==
    SendDataEnded =>
        /\ last.maxIndex <= 127
        /\ 8 + arg.packet.payloadSize > 128 =>
              (pc = "sd_done" /\ ret = 255 /\ trace = <<>>)

(***************************************************************************)
(* C27: connect()'s return value depends only on the polls.  A failure     *)
(* status from a configuration AT command neither ends connect() nor       *)
(* changes its result: the next configuration step follows, every command  *)
(* owed to a set field has been issued once polling starts, and the call   *)
(* returns true exactly on an attached poll, false only after 20 polls.    *)
(***************************************************************************)
ConfigPcs == {"c_pin", "c_apn", "c_carrier"}
AfterConfigPc ==
    [q \in ConfigPcs |->
        CASE q = "c_pin" -> "c_apn" [] q = "c_apn" -> "c_carrier"
          [] q = "c_carrier" -> "c_poll"]

C27_Inv ==
    /\ PollingStarted => ConfigCmds(trace) = OwedConfigCmds(config)
    /\ ConnectReturned =>
          /\ ret = PollJustAttached
          /\ ~ret => Polls(trace) = AttachRetries

C27_ConfigFailureIgnored ==
    /\ []C27_Inv
    /\ [][(pc \in ConfigPcs) =>
            /\ pc' = AfterConfigPc[pc]
            /\ ret' = ret
            /\ last'.status \in {"NONE", "SUCCESS", "UART_FAILURE"}]_vars

\* all three configuration commands failed to be written (the device owes
\* no response), and the first poll still ran and reported attached
C27_Witness ==
    /\ ConnectReturned /\ ret /\ calls = 1
    /\ Len(ConfigCmds(trace)) = 3
    /\ Polls(trace) = 1
    /\ devPending = <<>>

(***************************************************************************)
(* C28: connected() returns true only if the AT AI exchange delivered a    *)
(* response byte and that byte is 0; an exchange that succeeds with a      *)
(* zero-length response payload makes connected() return false.            *)
(***************************************************************************)
AwaitedPayload ==
    Arrived[CHOOSE j \in AwaitedAt : \A k \in AwaitedAt : j <= k].frame.data

C28_TrueOnlyOnDeliveredZero ==
    (pc = "w_done" /\ ret) =>
        /\ last.status = "SUCCESS"
        /\ AwaitedAt # {}
        /\ AwaitedPayload # <<>>
        /\ AwaitedPayload[1] = 0

(***************************************************************************)
(* C29: on a handle returned by create() on which configure() has never    *)
(* been called the stored configuration is empty, so a connect() made as   *)
(* the first call sends no configuration AT command and goes straight to   *)
(* polling.                                                                *)
(***************************************************************************)
EmptyConfig == [simPin |-> NullPtr, apn |-> NullPtr, carrier |-> NullPtr]

C29_FreshHandleSendsNoConfig ==
    /\ (op = "create" /\ pc = "idle") => config = EmptyConfig
    /\ (op = "connect" /\ calls = 1) => ConfigCmds(trace) = <<>>

(***************************************************************************)
(* C30: the handle owns its configuration copy: the AT parameters          *)
(* connect() sends are the field values as they were when the last         *)
(* configure() returned, so a step in which the caller modifies or         *)
(* releases its apn, simPin or carrier strings, no driver operation        *)
(* running, changes neither the stored configuration nor the commands      *)
(* connect() owes to it.                                                   *)
(***************************************************************************)
CallerStep == pc = "idle" /\ pc' = "idle" /\ calls' = calls /\ arg' # arg

C30_OwnsConfigurationCopy ==
    [][CallerStep =>
          /\ config' = config
          /\ OwedConfigCmds(config') = OwedConfigCmds(config)]_vars

====
